---- MODULE Spec2Model ----
(***************************************************************************)
(* generate_energy_provider_data (use_cases/The_Energy_Company/            *)
(* generate_data.py): the five-stage generator of the energy provider      *)
(* tables, as a state machine.  One step is one iteration of a stage's     *)
(* customer loop, or the code between two stages.                          *)
(*                                                                         *)
(* Columns that are free text from the faker provider or independent       *)
(* categorical draws that no later stage reads (names, address, account    *)
(* status, tariff plan, contract dates and status, resolution status) are  *)
(* left out of the rows.                                                   *)
(*                                                                         *)
(* Numbers: the program computes with IEEE 754 doubles, and so does the     *)
(* model (section "Doubles").  A value that round(x, 2) returned is kept   *)
(* as its integer number of hundredths h, which stands for the double      *)
(* nearest to h / 100: kWh and kW in hundredths, amounts in cents.         *)
(***************************************************************************)
EXTENDS Integers, Sequences, FiniteSets

VARIABLES pc, err, num_customers, start_date, end_date,
          customers_df, contracts_df, contract_id_counter,
          readings_df, reading_id_counter, reading_draws, date_range,
          solar_customers, anomaly_customers,
          billing_df, invoice_id_counter, overdue_customers,
          cases_df, case_id_counter, customers_for_cases, case_draws,
          idx, written

vars == <<pc, err, num_customers, start_date, end_date,
          customers_df, contracts_df, contract_id_counter,
          readings_df, reading_id_counter, reading_draws, date_range,
          solar_customers, anomaly_customers,
          billing_df, invoice_id_counter, overdue_customers,
          cases_df, case_id_counter, customers_for_cases, case_draws,
          idx, written>>

(***************************************************************************)
(* Bounds of the model.                                                    *)
(***************************************************************************)
MaxCustomers == 2

(***************************************************************************)
(* Generic helpers.                                                        *)
(***************************************************************************)
Min(a, b) == IF a <= b THEN a ELSE b
Max(a, b) == IF a >= b THEN a ELSE b

Range(s) == { s[i] : i \in 1..Len(s) }

\* All orders in which the elements of a finite set can be iterated.
Orders(S) == { o \in [1..Cardinality(S) -> S] : \A i, j \in 1..Cardinality(S) : o[i] = o[j] => i = j }

(***************************************************************************)
(* The proleptic Gregorian calendar of datetime / pandas.Timestamp.        *)
(* A datetime is [year, month, day, hour, minute]; a date is the same      *)
(* record with hour = minute = 0 (what .date() keeps).                     *)
(***************************************************************************)
IsLeap(y) == (y % 4 = 0) /\ ((y % 100 # 0) \/ (y % 400 = 0))

DaysInMonth(y, m) ==
    IF m = 2 THEN (IF IsLeap(y) THEN 29 ELSE 28)
    ELSE IF m \in {4, 6, 9, 11} THEN 30 ELSE 31

DaysBeforeYear(y) == (y - 1) * 365 + ((y - 1) \div 4) - ((y - 1) \div 100) + ((y - 1) \div 400)

\* _DAYS_BEFORE_MONTH, and one more day after February in a leap year.
DaysBeforeMonth(y, m) ==
    <<0, 31, 59, 90, 120, 151, 181, 212, 243, 273, 304, 334>>[m]
        + (IF m > 2 /\ IsLeap(y) THEN 1 ELSE 0)

\* date.toordinal(): 0001-01-01 is day 1.
ToOrdinal(d) == DaysBeforeYear(d.year) + DaysBeforeMonth(d.year, d.month) + d.day

DaysInYear(y) == IF IsLeap(y) THEN 366 ELSE 365

\* The year that holds day n, searched from year y.
RECURSIVE YearOfOrdinal(_, _)
YearOfOrdinal(n, y) ==
    IF n <= DaysBeforeYear(y) THEN YearOfOrdinal(n, y - 1)
    ELSE IF n > DaysBeforeYear(y) + DaysInYear(y) THEN YearOfOrdinal(n, y + 1)
    ELSE y

\* The month that holds the k-th day of year y: the estimate (k + 49) >> 5
\* of _ord2ymd, one less when that month starts later.
MonthOfDayOfYear(y, k) ==
    LET m == (k + 49) \div 32
    IN  IF DaysBeforeMonth(y, m) >= k THEN m - 1 ELSE m

\* date.fromordinal(n), at the time of day hh:mm.
FromOrdinal(n, hh, mm) ==
    LET y == YearOfOrdinal(n, 2025)
        k == n - DaysBeforeYear(y)
        m == MonthOfDayOfYear(y, k)
    IN  [year |-> y, month |-> m, day |-> k - DaysBeforeMonth(y, m), hour |-> hh, minute |-> mm]

DateTime(y, m, d) == [year |-> y, month |-> m, day |-> d, hour |-> 0, minute |-> 0]

\* Minutes since the start of day 0: the order of datetimes.
Minutes(dt) == ToOrdinal(dt) * 1440 + dt.hour * 60 + dt.minute

DtLE(a, b) == Minutes(a) <= Minutes(b)
DtLT(a, b) == Minutes(a) < Minutes(b)
DtMin(a, b) == IF DtLE(a, b) THEN a ELSE b

\* dt + timedelta(days=n): the time of day is kept.
AddDays(dt, n) == FromOrdinal(ToOrdinal(dt) + n, dt.hour, dt.minute)

\* dt + pd.DateOffset(months=n): the day is clamped to the target month's length.
AddMonths(dt, n) ==
    LET t == (dt.year * 12 + (dt.month - 1)) + n
        y == t \div 12
        m == (t % 12) + 1
    IN  [dt EXCEPT !.year = y, !.month = m, !.day = Min(dt.day, DaysInMonth(y, m))]

\* dt.replace(day=1)
ReplaceDay1(dt) == [dt EXCEPT !.day = 1]

\* dt.replace(hour=h, minute=m)
ReplaceTime(dt, h, m) == [dt EXCEPT !.hour = h, !.minute = m]

\* dt.date()
DateOf(dt) == [dt EXCEPT !.hour = 0, !.minute = 0]

\* A date_range that stops one day short of its end.
RECURSIVE DateRange_ExclusiveEnd(_, _)
DateRange_ExclusiveEnd(s, e) ==
    IF DtLT(s, e) THEN <<s>> \o DateRange_ExclusiveEnd(AddDays(s, 1), e) ELSE <<>>

\* pd.date_range(start, end, freq='D'): start, start + 1 day, ... while <= end.
RECURSIVE DateRange(_, _)
DateRange(s, e) == IF DtLE(s, e) THEN <<s>> \o DateRange(AddDays(s, 1), e) ELSE <<>>

(***************************************************************************)
(* Identifiers: f"{prefix}{n:0w}" is the prefix and the decimal digits of  *)
(* n, padded with zeros on the left to at least w digits.                  *)
(***************************************************************************)
RECURSIVE Digits(_)
Digits(n) == IF n < 10 THEN <<n>> ELSE Append(Digits(n \div 10), n % 10)

RECURSIVE ZeroPad(_, _)
ZeroPad(ds, w) == IF Len(ds) >= w THEN ds ELSE ZeroPad(<<0>> \o ds, w)

FormatId(prefix, n, w) == [prefix |-> prefix, digits |-> ZeroPad(Digits(n), w)]

\* int(digits): the value of the first n digits of ds, then of all of them.
RECURSIVE ParsePrefix(_, _)
ParsePrefix(ds, n) == IF n = 0 THEN 0 ELSE ParsePrefix(ds, n - 1) * 10 + ds[n]

ParseInt(ds) == ParsePrefix(ds, Len(ds))

\* int(customer_id.split('_')[1])
NumericId(id) == ParseInt(id.digits)

(***************************************************************************)
(* Doubles.  A natural number is the sequence of its digits in base 2^15,  *)
(* lowest first and without leading zeros (0 is <<>>).  A non-negative     *)
(* double x is the natural number x * 2^75: every double of the program    *)
(* between 2^-22 and 2^40 is an integer number of 2^-75.  A signed double  *)
(* is [neg, mag].  Every operation rounds its exact result to 53           *)
(* significant bits, ties to the even neighbour, as the hardware does.     *)
(***************************************************************************)
LimbBits == 15
Base == 32768
ScaleLimbs == 5
Precision == 53

RECURSIVE Trim(_)
Trim(a) == IF a # <<>> /\ a[Len(a)] = 0 THEN Trim(SubSeq(a, 1, Len(a) - 1)) ELSE a

RECURSIVE NatOfInt(_)
NatOfInt(n) == IF n = 0 THEN <<>> ELSE <<n % Base>> \o NatOfInt(n \div Base)

RECURSIVE IntOfNat(_)
IntOfNat(a) == IF a = <<>> THEN 0 ELSE Head(a) + Base * IntOfNat(Tail(a))

Limb(a, i) == IF i <= Len(a) THEN a[i] ELSE 0

RECURSIVE AddFrom(_, _, _, _)
AddFrom(a, b, i, carry) ==
    IF i > Len(a) /\ i > Len(b) THEN NatOfInt(carry)
    ELSE LET t == Limb(a, i) + Limb(b, i) + carry
         IN  <<t % Base>> \o AddFrom(a, b, i + 1, t \div Base)

AddNat(a, b) == AddFrom(a, b, 1, 0)

RECURSIVE MulSmallFrom(_, _, _, _)
MulSmallFrom(a, k, i, carry) ==
    IF i > Len(a) THEN NatOfInt(carry)
    ELSE LET t == a[i] * k + carry
         IN  <<t % Base>> \o MulSmallFrom(a, k, i + 1, t \div Base)

\* a * k for 0 <= k < Base.
MulSmall(a, k) == IF k = 0 THEN <<>> ELSE MulSmallFrom(a, k, 1, 0)

\* a * Base^n.
ShiftLimbs(a, n) == IF a = <<>> THEN <<>> ELSE [i \in 1..n |-> 0] \o a

RECURSIVE MulNat(_, _)
MulNat(a, b) ==
    IF b = <<>> THEN <<>>
    ELSE AddNat(MulSmall(a, Head(b)), ShiftLimbs(MulNat(a, Tail(b)), 1))

\* Quotient and remainder of a by d, 0 < d < Base: long division from the top.
RECURSIVE DivSmallFrom(_, _, _)
DivSmallFrom(a, d, i) ==
    IF i > Len(a) THEN [quot |-> <<>>, rem |-> 0]
    ELSE LET hi == DivSmallFrom(a, d, i + 1)
             cur == hi.rem * Base + a[i]
         IN  [quot |-> <<cur \div d>> \o hi.quot, rem |-> cur % d]

DivSmall(a, d) ==
    LET r == DivSmallFrom(a, d, 1) IN [quot |-> Trim(r.quot), rem |-> r.rem]

RECURSIVE BitLenInt(_)
BitLenInt(n) == IF n = 0 THEN 0 ELSE 1 + BitLenInt(n \div 2)

BitLen(a) == IF a = <<>> THEN 0 ELSE LimbBits * (Len(a) - 1) + BitLenInt(a[Len(a)])

\* a, or a and a non-zero fraction below it when sticky, rounded to 53
\* significant bits: round to nearest, ties to even.
RoundNat(a, sticky) ==
    LET d == BitLen(a) - Precision
    IN  IF d <= 0 THEN a
        ELSE LET k == d \div LimbBits
                 p == 2 ^ (d % LimbBits)
                 hk == ((d - 1) \div LimbBits) + 1
                 hp == 2 ^ ((d - 1) % LimbBits)
                 half == (a[hk] \div hp) % 2 = 1
                 rest == sticky \/ (a[hk] % hp # 0) \/ (\E i \in 1..(hk - 1) : a[i] # 0)
                 odd == (a[k + 1] \div p) % 2 = 1
                 kept == [i \in 1..Len(a) |->
                            IF i <= k THEN 0
                            ELSE IF i = k + 1 THEN a[i] - (a[i] % p) ELSE a[i]]
                 unit == [i \in 1..(k + 1) |-> IF i = k + 1 THEN p ELSE 0]
             IN  IF half /\ (rest \/ odd) THEN AddNat(kept, unit) ELSE kept

Zero == <<>>

\* The double of a decimal literal or of a decimal value n / d: the double
\* nearest to it, for n >= 0 and 0 < d < Base.
DoubleOfRatio(n, d) ==
    LET qr == DivSmall(ShiftLimbs(NatOfInt(n), ScaleLimbs), d)
    IN  RoundNat(qr.quot, qr.rem # 0)

\* x + y and x * y of two non-negative doubles (x + 0.0 is x, x * 0.0 is 0.0).
FAdd(x, y) ==
    IF x = Zero THEN y
    ELSE IF y = Zero THEN x
    ELSE RoundNat(AddNat(x, y), FALSE)

FMul(x, y) ==
    IF x = Zero \/ y = Zero THEN Zero
    ELSE LET r == RoundNat(MulNat(x, y), FALSE)
         IN  SubSeq(r, ScaleLimbs + 1, Len(r))

\* Signed doubles: the double of n / d, the product, and max(0, x).
Signed(n, d) == [neg |-> n < 0, mag |-> DoubleOfRatio(IF n < 0 THEN 0 - n ELSE n, d)]

SignedMul(x, y) == [neg |-> x.neg # y.neg, mag |-> FMul(x.mag, y.mag)]

MaxZero(x) == IF x.neg THEN Zero ELSE x.mag

\* The integer nearest to the natural number t * 2^-75, an exact tie to the
\* even one.
NearestInt(t) ==
    LET whole == IntOfNat(SubSeq(t, ScaleLimbs + 1, Len(t)))
        top == Limb(t, ScaleLimbs)
        low == \E i \in 1..(ScaleLimbs - 1) : Limb(t, i) # 0
    IN  IF top > Base \div 2 \/ (top = Base \div 2 /\ low) THEN whole + 1
        ELSE IF top = Base \div 2 THEN whole + (whole % 2)
        ELSE whole

\* round(x, 2) of a non-negative Python float, in hundredths: float.__round__
\* rounds the exact binary value of x to the nearest hundredth, an exact
\* tie to the even one, and returns the double nearest to that decimal.
Round2(x) == NearestInt(MulSmall(x, 100))

\* round(x, 2) of a non-negative numpy.float64, in hundredths:
\* float64.__round__ is numpy's round, rint(x * 100) / 100, whose product
\* is itself rounded to a double before rint takes the nearest integer.
NumpyRound2(x) == NearestInt(FMul(x, DoubleOfRatio(100, 1)))

\* numpy's float64 sum (pandas' Series.sum() of a float column): the
\* pairwise sum of the add loop.  Fewer than 8 values are added from left
\* to right; up to PW_BLOCKSIZE values go to 8 accumulators by index modulo
\* 8, which are added as a tree and then the rest one by one; more are split
\* in two.  SumLoop adds a[first], a[first + step], ..., a[i] to res in that
\* order.
PW_BLOCKSIZE == 128

RECURSIVE SumLoop(_, _, _, _, _)
SumLoop(a, res, first, step, i) ==
    IF i < first THEN res
    ELSE FAdd(SumLoop(a, res, first, step, i - step), a[i])

RECURSIVE PairwiseSum(_, _, _)
PairwiseSum(a, lo, n) ==
    IF n < 8 THEN SumLoop(a, Zero, lo, 1, lo + n - 1)
    ELSE IF n <= PW_BLOCKSIZE
    THEN LET full == n - (n % 8)
             r == [j \in 0..7 |-> SumLoop(a, a[lo + j], lo + j + 8, 8, lo + j + full - 8)]
             res == FAdd(FAdd(FAdd(r[0], r[1]), FAdd(r[2], r[3])),
                         FAdd(FAdd(r[4], r[5]), FAdd(r[6], r[7])))
         IN  SumLoop(a, res, lo + full, 1, lo + n - 1)
    ELSE LET h == n \div 2
             n2 == h - (h % 8)
         IN  FAdd(PairwiseSum(a, lo, n2), PairwiseSum(a, lo + n2, n - n2))

Sum(a) == PairwiseSum(a, 1, Len(a))

(***************************************************************************)
(* Program constants.                                                      *)
(***************************************************************************)
TARIFF_RATE_KWH == DoubleOfRatio(35, 100)     \* 0.35 EUR per kWh
BASE_MONTHLY_FEE == DoubleOfRatio(550, 100)   \* 5.50 EUR
FirstCustomerNumber == 1001
FirstContractNumber == 5001
FirstReadingNumber == 100001
FirstInvoiceNumber == 80001
FirstCaseNumber == 101
MeterIdOffset == 12345
AnomalySampleSize == 15
OverdueCount == 7
SpikeHalfWidth == 2
InvoiceDelayDays == 5
DueDelayDays == 14
AnomalyCaseDelay == 15
OverdueCaseDelay == 30

anomaly_spike_date == DateTime(2025, 8, 15)

CustomerTypes == {"residential", "commercial"}
ServiceTypes == {"electricity", "gas", "solar panel lease"}
SolarMonths == {6, 7, 8}
TableNames == <<"DIM_CUSTOMERS", "FACT_CONTRACTS", "FACT_SMART_METER_READINGS",
                "FACT_BILLINGS", "FACT_SUPPORT_CASES">>

(***************************************************************************)
(* Inputs.  The generation windows are datetimes at midnight: a range of   *)
(* dates, some of them empty (end_date before start_date).                 *)
(***************************************************************************)
CustomerCounts == (0 - 1)..MaxCustomers

Windows ==
    { <<DateTime(2025, 8, 31), DateTime(2025, 9, 1)>>,
      <<DateTime(2025, 8, 1), DateTime(2025, 9, 1)>>,
      <<DateTime(2025, 8, 14), DateTime(2025, 8, 16)>>,
      <<DateTime(2024, 12, 31), DateTime(2025, 1, 1)>>,
      <<DateTime(2025, 9, 1), DateTime(2025, 8, 31)>>,
      <<DateTime(2025, 8, 20), DateTime(2025, 8, 10)>> }

(***************************************************************************)
(* Random draws.  The draws of one reading are a record: the two normal    *)
(* draws of base_consumption (the doubles of com / 1000 and res / 1000     *)
(* kWh), the spike factor (the double of f), the generation draw (the      *)
(* double of g / 1000 kW) and the hour and minute.  The readings loop      *)
(* takes its draws from a sequence that repeats.                           *)
(***************************************************************************)
ReadingDraw(com, res, f, g, h, m) ==
    [normal_commercial |-> Signed(com, 1000), normal_residential |-> Signed(res, 1000),
     spike_factor |-> Signed(f, 1), generation |-> Signed(g, 1000),
     hour |-> h, minute |-> m]

ReadingDrawSequences ==
    { << ReadingDraw(75375, 10125, 5, 1000, 0, 0) >>,
      << ReadingDraw(75375, 10125, 5, 1000, 0, 0),
         ReadingDraw(64200, 7300, 6, 3125, 12, 30),
         ReadingDraw(80000, 0 - 500, 8, 5500, 23, 59) >> }

\* The draws of one support case: randint(1, 2) for the number of cases of
\* its customer, randint(1, 5) for the day offset, the pick of the issue
\* type and faker's pick of a day of the window.
CaseDraw(n, o, i, d) == [num_cases |-> n, offset |-> o, issue_type |-> i, faker_day |-> d]

CaseDrawSequences ==
    { << CaseDraw(1, 1, "service outage", 0) >>,
      << CaseDraw(2, 5, "tariff plan query", 1), CaseDraw(1, 3, "meter reading issue", 2) >> }

DrawAt(seq, k) == seq[(k % Len(seq)) + 1]

\* The draws of one customer's contract slots (lines 62 and 65): the sequence
\* of the service types drawn, as long as num_contracts.  One slot, two slots
\* of different types, and two slots of the same type.
ContractDraws ==
    { << "electricity" >>,
      << "solar panel lease" >>,
      << "gas", "gas" >>,
      << "gas", "solar panel lease" >> }

(***************************************************************************)
(* Stage 1: customers (lines 35-55).                                       *)
(***************************************************************************)
customer_ids(n) == [i \in 1..Max(n, 0) |-> FormatId("CID_", FirstCustomerNumber + (i - 1), 6)]

CustomerRow(id, type) == [CUSTOMER_ID |-> id, CUSTOMER_TYPE |-> type]

Init ==
    /\ pc = "customers"
    /\ err = "none"
    /\ num_customers \in CustomerCounts
    /\ \E w \in Windows : start_date = w[1] /\ end_date = w[2]
    /\ customers_df = <<>>
    /\ contracts_df = <<>>
    /\ contract_id_counter = 0
    /\ readings_df = <<>>
    /\ reading_id_counter = 0
    /\ reading_draws = <<>>
    /\ date_range = <<>>
    /\ solar_customers = {}
    /\ anomaly_customers = {}
    /\ billing_df = <<>>
    /\ invoice_id_counter = 0
    /\ overdue_customers = {}
    /\ cases_df = <<>>
    /\ case_id_counter = 0
    /\ customers_for_cases = <<>>
    /\ case_draws = <<>>
    /\ idx = 0
    /\ written = <<>>

\* Lines 35-59 with at least one customer: the roster, then the contract counter.
GenerateCustomers ==
    /\ pc = "customers"
    /\ num_customers > 0
    /\ \E types \in [1..num_customers -> CustomerTypes] :
          customers_df' = [i \in 1..num_customers |->
                              CustomerRow(customer_ids(num_customers)[i], types[i])]
    /\ contract_id_counter' = FirstContractNumber
    /\ idx' = 1
    /\ pc' = "contracts"
    /\ UNCHANGED <<err, num_customers, start_date, end_date, contracts_df,
                   readings_df, reading_id_counter, reading_draws, date_range, solar_customers,
                   anomaly_customers, billing_df, invoice_id_counter, overdue_customers,
                   cases_df, case_id_counter, customers_for_cases, case_draws, written>>

\* Lines 35-54 with no customer: the frame built from an empty list has no
\* column, and customers_df['JOIN_DATE'] raises KeyError.
CustomersKeyError ==
    /\ pc = "customers"
    /\ num_customers <= 0
    /\ pc' = "error"
    /\ err' = "KeyError: JOIN_DATE"
    /\ UNCHANGED <<num_customers, start_date, end_date, customers_df, contracts_df,
                   contract_id_counter, readings_df, reading_id_counter, reading_draws, date_range,
                   solar_customers, anomaly_customers, billing_df, invoice_id_counter,
                   overdue_customers, cases_df, case_id_counter, customers_for_cases,
                   case_draws, idx, written>>

(***************************************************************************)
(* Stage 2: service contracts (lines 58-84).                               *)
(***************************************************************************)
ContractRow(n, customer_id, service_type) ==
    [CONTRACT_ID |-> FormatId("CON_", n, 7), CUSTOMER_ID |-> customer_id,
     SERVICE_TYPE |-> service_type]

\* A slot loop that advances the counter for a skipped slot too.
RECURSIVE ContractSlots_CountSkipped(_, _, _, _, _, _, _)
ContractSlots_CountSkipped(customer_id, drawn, k, num_contracts, services, rows, counter) ==
    IF k > num_contracts THEN [rows |-> rows, counter |-> counter]
    ELSE IF drawn[k] \in services
         THEN ContractSlots_CountSkipped(customer_id, drawn, k + 1, num_contracts, services,
                                         rows, counter + 1)
         ELSE ContractSlots_CountSkipped(customer_id, drawn, k + 1, num_contracts,
                                         services \cup {drawn[k]},
                                         Append(rows, ContractRow(counter, customer_id, drawn[k])),
                                         counter + 1)

\* A slot loop without the test of line 66.
RECURSIVE ContractSlots_NoDuplicateCheck(_, _, _, _, _, _, _)
ContractSlots_NoDuplicateCheck(customer_id, drawn, k, num_contracts, services, rows, counter) ==
    IF k > num_contracts THEN [rows |-> rows, counter |-> counter]
    ELSE ContractSlots_NoDuplicateCheck(customer_id, drawn, k + 1, num_contracts,
                                        services \cup {drawn[k]},
                                        Append(rows, ContractRow(counter, customer_id, drawn[k])),
                                        counter + 1)

\* The slot loop of one customer (lines 64-79): slots k..num_contracts, with
\* the service types already taken, the rows so far and the counter.
RECURSIVE ContractSlots(_, _, _, _, _, _, _)
ContractSlots(customer_id, drawn, k, num_contracts, services, rows, counter) ==
    IF k > num_contracts THEN [rows |-> rows, counter |-> counter]
    ELSE IF drawn[k] \in services
         THEN ContractSlots(customer_id, drawn, k + 1, num_contracts, services, rows, counter)
         ELSE ContractSlots(customer_id, drawn, k + 1, num_contracts,
                            services \cup {drawn[k]},
                            Append(rows, ContractRow(counter, customer_id, drawn[k])),
                            counter + 1)

GenerateContracts ==
    /\ pc = "contracts"
    /\ idx <= Len(customers_df)
    /\ \E drawn \in ContractDraws :
          LET r == ContractSlots(customers_df[idx].CUSTOMER_ID, drawn, 1, Len(drawn),
                                 {}, <<>>, contract_id_counter)
          IN  /\ contracts_df' = contracts_df \o r.rows
              /\ contract_id_counter' = r.counter
    /\ idx' = idx + 1
    /\ UNCHANGED <<pc, err, num_customers, start_date, end_date, customers_df,
                   readings_df, reading_id_counter, reading_draws, date_range, solar_customers,
                   anomaly_customers, billing_df, invoice_id_counter, overdue_customers,
                   cases_df, case_id_counter, customers_for_cases, case_draws, written>>

(***************************************************************************)
(* Stage 3: smart meter readings (lines 87-119).                           *)
(***************************************************************************)
SolarCustomers(contracts) ==
    { contracts[i].CUSTOMER_ID : i \in { j \in 1..Len(contracts) :
                                          contracts[j].SERVICE_TYPE = "solar panel lease" } }

ResidentialIds(customers) ==
    { customers[i].CUSTOMER_ID : i \in { j \in 1..Len(customers) :
                                          customers[j].CUSTOMER_TYPE = "residential" } }

\* random.sample(population, k) as a set: any k elements.
Samples(population, k) == { S \in SUBSET population : Cardinality(S) = k }

AnomalySamples(customers) ==
    Samples(ResidentialIds(customers),
            Min(AnomalySampleSize, Cardinality(ResidentialIds(customers))))

\* Lines 81-94: the contracts frame, then the sets the readings loop reads.
PrepareReadings ==
    /\ pc = "contracts"
    /\ idx > Len(customers_df)
    /\ reading_id_counter' = FirstReadingNumber
    /\ solar_customers' = SolarCustomers(contracts_df)
    /\ anomaly_customers' \in AnomalySamples(customers_df)
    /\ reading_draws' \in ReadingDrawSequences
    /\ date_range' = DateRange(start_date, end_date)
    /\ idx' = 1
    /\ pc' = "readings"
    /\ UNCHANGED <<err, num_customers, start_date, end_date, customers_df, contracts_df,
                   contract_id_counter, readings_df, billing_df, invoice_id_counter,
                   overdue_customers, cases_df, case_id_counter, customers_for_cases,
                   case_draws, written>>

\* Line 103: anomaly_spike_date - timedelta(days=2) <= day <= anomaly_spike_date + timedelta(days=2)
spike_first == AddDays(anomaly_spike_date, 0 - SpikeHalfWidth)
spike_last == AddDays(anomaly_spike_date, SpikeHalfWidth)

InSpike(day) == DtLE(spike_first, day) /\ DtLE(day, spike_last)

\* Lines 102-106: a signed double.
KwhConsumption(customer_id, cust_type, day, draw, anomaly) ==
    LET base_consumption == IF cust_type = "commercial" THEN draw.normal_commercial
                            ELSE draw.normal_residential
    IN  IF customer_id \in anomaly /\ InSpike(day)
        THEN SignedMul(base_consumption, draw.spike_factor)
        ELSE base_consumption

\* A generation draw that forgets the month.
KwGeneration_AnyMonth(customer_id, day, draw, solar) ==
    IF customer_id \in solar THEN draw.generation ELSE Signed(0, 1)

\* Line 107: a signed double.
KwGeneration(customer_id, day, draw, solar) ==
    IF customer_id \in solar /\ day.month \in SolarMonths THEN draw.generation
    ELSE Signed(0, 1)

\* Lines 108-115.
ReadingRow(n, customer_id, cust_type, day, draw, anomaly, solar) ==
    [READING_ID |-> FormatId("RID_", n, 8),
     CUSTOMER_ID |-> customer_id,
     METER_ID |-> [prefix |-> "MTR-", digits |-> Digits(NumericId(customer_id) + MeterIdOffset)],
     TIMESTAMP |-> ReplaceTime(day, draw.hour, draw.minute),
     KWH_CONSUMPTION |-> Round2(MaxZero(KwhConsumption(customer_id, cust_type, day, draw, anomaly))),
     KW_GENERATION |-> Round2(MaxZero(KwGeneration(customer_id, day, draw, solar)))]

\* One pass of the customer loop (lines 96-116): one row per day of date_range.
GenerateReadings ==
    /\ pc = "readings"
    /\ idx <= Len(customers_df)
    /\ LET c == customers_df[idx]
           days == date_range
           rows == [k \in 1..Len(days) |->
                       ReadingRow(reading_id_counter + (k - 1), c.CUSTOMER_ID, c.CUSTOMER_TYPE,
                                  days[k],
                                  DrawAt(reading_draws, reading_id_counter + (k - 1) - FirstReadingNumber),
                                  anomaly_customers, solar_customers)]
       IN  /\ readings_df' = readings_df \o rows
           /\ reading_id_counter' = reading_id_counter + Len(days)
    /\ idx' = idx + 1
    /\ UNCHANGED <<pc, err, num_customers, start_date, end_date, customers_df, contracts_df,
                   contract_id_counter, reading_draws, date_range, solar_customers, anomaly_customers,
                   billing_df, invoice_id_counter, overdue_customers, cases_df,
                   case_id_counter, customers_for_cases, case_draws, written>>

(***************************************************************************)
(* Stage 4: billing (lines 122-170).                                       *)
(***************************************************************************)
\* list(anomaly_customers)[:7] as a set: a set iterates in no fixed order,
\* so any 7 of its elements (all of them when it has fewer).
OverdueSamples(anomaly) == Samples(anomaly, Min(OverdueCount, Cardinality(anomaly)))

\* Lines 118-124.
PrepareBilling ==
    /\ pc = "readings"
    /\ idx > Len(customers_df)
    /\ invoice_id_counter' = FirstInvoiceNumber
    /\ overdue_customers' \in OverdueSamples(anomaly_customers)
    /\ idx' = 1
    /\ pc' = "billing"
    /\ UNCHANGED <<err, num_customers, start_date, end_date, customers_df, contracts_df,
                   contract_id_counter, readings_df, reading_id_counter, reading_draws, date_range,
                   solar_customers, anomaly_customers, billing_df, cases_df,
                   case_id_counter, customers_for_cases, case_draws, written>>

\* Line 128.
NumMonths(s, e) == (e.year - s.year) * 12 + (e.month - s.month) + 1

\* Lines 130 and 134: the month of the invoice, from its first day.
PeriodStart(s, month_offset) == ReplaceDay1(AddMonths(s, month_offset))

\* A period end that is not clamped to the end of the window.
PeriodEnd_Unclamped(period_start, e) == AddDays(AddMonths(period_start, 1), 0 - 1)

\* Lines 135-137.
PeriodEnd(period_start, e) == DtMin(AddDays(AddMonths(period_start, 1), 0 - 1), e)

\* A month loop that skips nothing.
MonthSkipped_Never(s, e, month_offset) == FALSE

\* Line 132: the month is skipped when the shifted start date is past the end.
MonthSkipped(s, e, month_offset) == DtLT(e, AddMonths(s, month_offset))

\* Lines 139-143: the double that .sum() returns for the rows selected.
MonthlyConsumption(readings, customer_id, period_start, period_end) ==
    LET Match(r) == /\ r.CUSTOMER_ID = customer_id
                    /\ DtLE(period_start, r.TIMESTAMP)
                    /\ DtLE(r.TIMESTAMP, period_end)
        rows == SelectSeq(readings, Match)
    IN  Sum([i \in 1..Len(rows) |-> DoubleOfRatio(rows[i].KWH_CONSUMPTION, 100)])

\* Line 145, in cents: round(monthly_consumption * 0.35 + 5.50, 2), where
\* monthly_consumption is the numpy.float64 of .sum() and so is the sum
\* that is rounded.
Amount(monthly_consumption) ==
    NumpyRound2(FAdd(FMul(monthly_consumption, TARIFF_RATE_KWH), BASE_MONTHLY_FEE))

\* A status that tests the overdue set before the month of end_date.
PaymentStatus_OverdueFirst(customer_id, period_start, e, overdue) ==
    IF customer_id \in overdue /\ period_start.month = 8 THEN "overdue"
    ELSE IF period_start.month = e.month /\ period_start.year = e.year THEN "pending"
    ELSE "paid"

\* Lines 148-153.
PaymentStatus(customer_id, period_start, e, overdue) ==
    IF period_start.month = e.month /\ period_start.year = e.year THEN "pending"
    ELSE IF customer_id \in overdue /\ period_start.month = 8 THEN "overdue"
    ELSE "paid"

\* Lines 134-164.
InvoiceRow(n, customer_id, s, e, month_offset, readings, overdue) ==
    LET period_start == PeriodStart(s, month_offset)
        period_end == PeriodEnd(period_start, e)
        invoice_date == DateOf(AddDays(period_end, InvoiceDelayDays))
    IN  [INVOICE_ID |-> FormatId("INV_", n, 7),
         CUSTOMER_ID |-> customer_id,
         INVOICE_DATE |-> invoice_date,
         DUE_DATE |-> AddDays(invoice_date, DueDelayDays),
         AMOUNT_DUE |-> Amount(MonthlyConsumption(readings, customer_id, period_start, period_end)),
         PAYMENT_STATUS |-> PaymentStatus(customer_id, period_start, e, overdue),
         CONSUMPTION_PERIOD_START |-> DateOf(period_start),
         CONSUMPTION_PERIOD_END |-> DateOf(period_end)]

\* The month loop of one customer (lines 129-165), from month_offset on.
RECURSIVE InvoiceRows(_, _, _, _, _, _, _, _)
InvoiceRows(customer_id, s, e, month_offset, readings, overdue, rows, counter) ==
    IF month_offset >= NumMonths(s, e) THEN [rows |-> rows, counter |-> counter]
    ELSE IF MonthSkipped(s, e, month_offset)
         THEN InvoiceRows(customer_id, s, e, month_offset + 1, readings, overdue, rows, counter)
         ELSE InvoiceRows(customer_id, s, e, month_offset + 1, readings, overdue,
                          Append(rows, InvoiceRow(counter, customer_id, s, e, month_offset,
                                                  readings, overdue)),
                          counter + 1)

GenerateBilling ==
    /\ pc = "billing"
    /\ idx <= Len(customers_df)
    /\ LET r == InvoiceRows(customers_df[idx].CUSTOMER_ID, start_date, end_date, 0,
                            readings_df, overdue_customers, <<>>, invoice_id_counter)
       IN  /\ billing_df' = billing_df \o r.rows
           /\ invoice_id_counter' = r.counter
    /\ idx' = idx + 1
    /\ UNCHANGED <<pc, err, num_customers, start_date, end_date, customers_df, contracts_df,
                   contract_id_counter, readings_df, reading_id_counter, reading_draws, date_range,
                   solar_customers, anomaly_customers, overdue_customers, cases_df,
                   case_id_counter, customers_for_cases, case_draws, written>>

\* Lines 167-169 with no invoice: the empty frame has no column, and
\* billing_df['INVOICE_DATE'] raises KeyError.
BillingKeyError ==
    /\ pc = "billing"
    /\ idx > Len(customers_df)
    /\ billing_df = <<>>
    /\ pc' = "error"
    /\ err' = "KeyError: INVOICE_DATE"
    /\ UNCHANGED <<num_customers, start_date, end_date, customers_df, contracts_df,
                   contract_id_counter, readings_df, reading_id_counter, reading_draws, date_range,
                   solar_customers, anomaly_customers, billing_df, invoice_id_counter,
                   overdue_customers, cases_df, case_id_counter, customers_for_cases,
                   case_draws, idx, written>>

(***************************************************************************)
(* Stage 5: support cases (lines 173-207).                                 *)
(***************************************************************************)
\* int(num_customers * 0.2)
CaseSampleSize(n) == (n * 2) \div 10

\* Lines 175-177, as the orders in which the loop of line 179 can visit the set.
CaseCustomerOrders(n, anomaly, overdue) ==
    UNION { Orders(sample \cup anomaly \cup overdue) :
                sample \in Samples(Range(customer_ids(n)), CaseSampleSize(n)) }

\* Lines 167-177.
PrepareCases ==
    /\ pc = "billing"
    /\ idx > Len(customers_df)
    /\ billing_df # <<>>
    /\ case_id_counter' = FirstCaseNumber
    /\ customers_for_cases' \in CaseCustomerOrders(num_customers, anomaly_customers, overdue_customers)
    /\ case_draws' \in CaseDrawSequences
    /\ idx' = 1
    /\ pc' = "cases"
    /\ UNCHANGED <<err, num_customers, start_date, end_date, customers_df, contracts_df,
                   contract_id_counter, readings_df, reading_id_counter, reading_draws, date_range,
                   solar_customers, anomaly_customers, billing_df, invoice_id_counter,
                   overdue_customers, cases_df, written>>

\* Lines 182-202.
CaseRow(n, customer_id, draw, s, e, anomaly, overdue) ==
    LET faker_date == DateOf(AddDays(s, draw.faker_day % (ToOrdinal(e) - ToOrdinal(s) + 1)))
        category == IF customer_id \in anomaly THEN "anomaly"
                    ELSE IF customer_id \in overdue THEN "overdue"
                    ELSE "general"
    IN  [CASE_ID |-> FormatId("CAS_", n, 6),
         CUSTOMER_ID |-> customer_id,
         CASE_DATE |->
             IF category = "anomaly"
             THEN DateOf(AddDays(anomaly_spike_date, AnomalyCaseDelay + draw.offset))
             ELSE IF category = "overdue"
             THEN DateOf(AddDays(anomaly_spike_date, OverdueCaseDelay + draw.offset))
             ELSE faker_date,
         ISSUE_TYPE |-> IF category = "general" THEN draw.issue_type ELSE "billing inquiry",
         DESCRIPTION |->
             IF category = "anomaly"
             THEN "Customer inquired about unexpectedly high bill for August."
             ELSE IF category = "overdue"
             THEN "Follow-up call regarding overdue payment for August invoice."
             ELSE "Customer called with a general query about their service."]

\* One pass of the loop of line 179: the 1 or 2 cases of one customer.
GenerateCases ==
    /\ pc = "cases"
    /\ idx <= Len(customers_for_cases)
    /\ LET k0 == case_id_counter - FirstCaseNumber
           num_cases == DrawAt(case_draws, k0).num_cases
           rows == [k \in 1..num_cases |->
                       CaseRow(case_id_counter + (k - 1), customers_for_cases[idx],
                               DrawAt(case_draws, k0 + (k - 1)), start_date, end_date,
                               anomaly_customers, overdue_customers)]
       IN  /\ cases_df' = cases_df \o rows
           /\ case_id_counter' = case_id_counter + num_cases
    /\ idx' = idx + 1
    /\ UNCHANGED <<pc, err, num_customers, start_date, end_date, customers_df, contracts_df,
                   contract_id_counter, readings_df, reading_id_counter, reading_draws, date_range,
                   solar_customers, anomaly_customers, billing_df, invoice_id_counter,
                   overdue_customers, customers_for_cases, case_draws, written>>

\* Lines 205-206 with no case: support_cases_df['CASE_DATE'] raises KeyError.
CasesKeyError ==
    /\ pc = "cases"
    /\ idx > Len(customers_for_cases)
    /\ cases_df = <<>>
    /\ pc' = "error"
    /\ err' = "KeyError: CASE_DATE"
    /\ UNCHANGED <<num_customers, start_date, end_date, customers_df, contracts_df,
                   contract_id_counter, readings_df, reading_id_counter, reading_draws, date_range,
                   solar_customers, anomaly_customers, billing_df, invoice_id_counter,
                   overdue_customers, cases_df, case_id_counter, customers_for_cases,
                   case_draws, idx, written>>

(***************************************************************************)
(* The hand-off to the sink (lines 205-218): the five write_pandas calls,  *)
(* in the order of TableNames.                                             *)
(***************************************************************************)
WriteTables ==
    /\ pc = "cases"
    /\ idx > Len(customers_for_cases)
    /\ cases_df # <<>>
    /\ written' = TableNames
    /\ pc' = "done"
    /\ UNCHANGED <<err, num_customers, start_date, end_date, customers_df, contracts_df,
                   contract_id_counter, readings_df, reading_id_counter, reading_draws, date_range,
                   solar_customers, anomaly_customers, billing_df, invoice_id_counter,
                   overdue_customers, cases_df, case_id_counter, customers_for_cases,
                   case_draws, idx>>

Next ==
    \/ GenerateCustomers
    \/ CustomersKeyError
    \/ GenerateContracts
    \/ PrepareReadings
    \/ GenerateReadings
    \/ PrepareBilling
    \/ GenerateBilling
    \/ BillingKeyError
    \/ PrepareCases
    \/ GenerateCases
    \/ CasesKeyError
    \/ WriteTables

Spec == Init /\ [][Next]_vars

(***************************************************************************)
(* Where the run stands.                                                   *)
(***************************************************************************)
ContractsComplete ==
    \/ pc = "contracts" /\ idx > Len(customers_df)
    \/ pc \in {"readings", "billing", "cases", "done"}
    \/ err \in {"KeyError: INVOICE_DATE", "KeyError: CASE_DATE"}

\* The readings loop has ended and no later stage has begun.
ReadingsComplete == pc = "readings" /\ idx > Len(customers_df)

BillingComplete ==
    \/ pc = "billing" /\ idx > Len(customers_df)
    \/ pc \in {"cases", "done"}
    \/ err \in {"KeyError: INVOICE_DATE", "KeyError: CASE_DATE"}

Indices(table) == 1..Len(table)

CustomerIdSet == { customers_df[i].CUSTOMER_ID : i \in Indices(customers_df) }

ContractsOf(c) == { i \in Indices(contracts_df) : contracts_df[i].CUSTOMER_ID = c }

InvoicesOf(c) == { i \in Indices(billing_df) : billing_df[i].CUSTOMER_ID = c }

\* The number of days of the window, 0 when it is empty.
WindowDays == Max(0, ToOrdinal(end_date) - ToOrdinal(start_date) + 1)

\* The calendar month (y, m) has a day in [start_date, end_date].
MonthIntersectsWindow(y, m) ==
    /\ DtLE(DateTime(y, m, 1), end_date)
    /\ DtLE(start_date, DateTime(y, m, DaysInMonth(y, m)))

SameMonth(a, b) == a.year = b.year /\ a.month = b.month

(***************************************************************************)
(* C1: for every customer and every window with start_date <= end_date,    *)
(* the billing stage emits exactly one invoice for each calendar month     *)
(* that intersects the window, and no other invoice.                       *)
(***************************************************************************)
C1_OneInvoicePerIntersectingMonth ==
    (BillingComplete /\ DtLE(start_date, end_date)) =>
        \A c \in CustomerIdSet :
            /\ \A y \in start_date.year..end_date.year : \A m \in 1..12 :
                  MonthIntersectsWindow(y, m) =>
                      Cardinality({ i \in InvoicesOf(c) :
                                      /\ billing_df[i].CONSUMPTION_PERIOD_START.year = y
                                      /\ billing_df[i].CONSUMPTION_PERIOD_START.month = m }) = 1
            /\ \A i \in InvoicesOf(c) :
                  MonthIntersectsWindow(billing_df[i].CONSUMPTION_PERIOD_START.year,
                                        billing_df[i].CONSUMPTION_PERIOD_START.month)

(***************************************************************************)
(* C2: every invoice's AMOUNT_DUE is round(S * 0.35 + 5.50, 2), S the sum  *)
(* of KWH_CONSUMPTION over the customer's readings whose calendar day lies *)
(* in [CONSUMPTION_PERIOD_START, CONSUMPTION_PERIOD_END], whatever the     *)
(* time of day of the reading.                                             *)
(***************************************************************************)
ConsumptionOfDays(customer_id, first, last) ==
    LET OfDays(r) == /\ r.CUSTOMER_ID = customer_id
                     /\ ToOrdinal(first) <= ToOrdinal(r.TIMESTAMP)
                     /\ ToOrdinal(r.TIMESTAMP) <= ToOrdinal(last)
        rows == SelectSeq(readings_df, OfDays)
    IN  Sum([i \in 1..Len(rows) |-> DoubleOfRatio(rows[i].KWH_CONSUMPTION, 100)])

C2_AmountFromCalendarDays ==
    \A i \in Indices(billing_df) :
        billing_df[i].AMOUNT_DUE =
            Amount(ConsumptionOfDays(billing_df[i].CUSTOMER_ID,
                                     billing_df[i].CONSUMPTION_PERIOD_START,
                                     billing_df[i].CONSUMPTION_PERIOD_END))

(***************************************************************************)
(* C3: every customer of the overdue set has at least one 'billing         *)
(* inquiry' case of the overdue category, dated anomaly date + 30..35 days.*)
(***************************************************************************)
IsOverdueCase(case) ==
    /\ case.ISSUE_TYPE = "billing inquiry"
    /\ ToOrdinal(case.CASE_DATE) - ToOrdinal(anomaly_spike_date) \in 30..35

C3_OverdueCustomersGetOverdueCase ==
    pc = "done" =>
        \A c \in overdue_customers :
            \E i \in Indices(cases_df) :
                cases_df[i].CUSTOMER_ID = c /\ IsOverdueCase(cases_df[i])

(***************************************************************************)
(* C4: a zero or negative customer count, end_date before start_date, or   *)
(* fewer residential customers than the 15 of the anomaly sample make the  *)
(* run end in an error with no table handed to the sink.                   *)
(***************************************************************************)
TooFewResidential ==
    /\ pc # "customers"
    /\ Cardinality(ResidentialIds(customers_df)) < AnomalySampleSize

InvalidInput ==
    \/ num_customers <= 0
    \/ DtLT(end_date, start_date)
    \/ TooFewResidential

C4_InvalidInputsFail == InvalidInput => (pc # "done" /\ written = <<>>)

\* C4, amended: a zero or negative customer count, or end_date before
\* start_date, never gets a table to the sink: the run raises KeyError on
\* the empty customers frame (before any contract exists) or on the empty
\* billing frame (before any support case exists), and no run that raises
\* has written a table.  Having fewer than 15 residential customers is no
\* error: the anomaly sample is then all the residential customers, and
\* the only other failure is the KeyError on an empty support-case frame,
\* raised when there is no residential customer at all and the 20% sample
\* of the customers is empty.
C4_Amended ==
    /\ (num_customers <= 0 \/ DtLT(end_date, start_date)) => (pc # "done" /\ written = <<>>)
    /\ num_customers <= 0 => (pc \in {"customers", "error"} /\ contracts_df = <<>>)
    /\ DtLT(end_date, start_date) =>
          (pc \notin {"cases", "done"} /\ readings_df = <<>> /\ billing_df = <<>> /\ cases_df = <<>>)
    /\ pc = "error" =>
          /\ written = <<>>
          /\ \/ err = "KeyError: JOIN_DATE" /\ num_customers <= 0
             \/ err = "KeyError: INVOICE_DATE" /\ num_customers > 0 /\ DtLT(end_date, start_date)
             \/ /\ err = "KeyError: CASE_DATE"
                /\ num_customers \in 1..4
                /\ DtLE(start_date, end_date)
                /\ ResidentialIds(customers_df) = {}
    /\ pc \in {"readings", "billing", "cases", "done"} =>
          /\ anomaly_customers \subseteq ResidentialIds(customers_df)
          /\ Cardinality(anomaly_customers) =
                Min(15, Cardinality(ResidentialIds(customers_df)))
    /\ pc = "done" =>
          /\ written = TableNames
          /\ num_customers > 0
          /\ DtLE(start_date, end_date)

C4_Witness ==
    /\ pc = "error"
    /\ err = "KeyError: INVOICE_DATE"
    /\ num_customers > 0
    /\ DtLT(end_date, start_date)
    /\ SameMonth(start_date, end_date)

(***************************************************************************)
(* C5: after the meter-reading stage every customer has exactly one        *)
(* reading on every calendar day of [start_date, end_date], no reading     *)
(* falls outside the window, and there are customers x days readings.      *)
(***************************************************************************)
ReadingsOn(c, ordinal) ==
    { i \in Indices(readings_df) :
        readings_df[i].CUSTOMER_ID = c /\ ToOrdinal(readings_df[i].TIMESTAMP) = ordinal }

C5_OneReadingPerCustomerDay ==
    ReadingsComplete =>
        /\ \A c \in CustomerIdSet : \A d \in ToOrdinal(start_date)..ToOrdinal(end_date) :
              Cardinality(ReadingsOn(c, d)) = 1
        /\ \A i \in Indices(readings_df) :
              /\ ToOrdinal(start_date) <= ToOrdinal(readings_df[i].TIMESTAMP)
              /\ ToOrdinal(readings_df[i].TIMESTAMP) <= ToOrdinal(end_date)
              /\ readings_df[i].CUSTOMER_ID \in CustomerIdSet
        /\ Len(readings_df) = Len(customers_df) * WindowDays

C5_Witness ==
    /\ ReadingsComplete
    /\ Len(customers_df) = 2
    /\ WindowDays > 31
    /\ \E i \in Indices(readings_df) : readings_df[i].TIMESTAMP.hour = 23

(***************************************************************************)
(* C6: a reading with KW_GENERATION > 0 belongs to a customer with a       *)
(* solar-lease contract and is of June, July or August; a customer with no *)
(* solar-lease contract has KW_GENERATION = 0 on every reading.            *)
(***************************************************************************)
HasSolarContract(c) ==
    \E i \in ContractsOf(c) : contracts_df[i].SERVICE_TYPE = "solar panel lease"

C6_GenerationOnlySolarSummer ==
    pc = "readings" =>
        \A i \in Indices(readings_df) :
            /\ readings_df[i].KW_GENERATION > 0 =>
                  /\ HasSolarContract(readings_df[i].CUSTOMER_ID)
                  /\ readings_df[i].TIMESTAMP.month \in {6, 7, 8}
            /\ ~HasSolarContract(readings_df[i].CUSTOMER_ID) => readings_df[i].KW_GENERATION = 0

C6_Witness ==
    /\ ReadingsComplete
    /\ \E i, j, k \in Indices(readings_df) :
          /\ readings_df[i].KW_GENERATION > 0
          /\ readings_df[j].CUSTOMER_ID = readings_df[i].CUSTOMER_ID
          /\ readings_df[j].TIMESTAMP.month = 9
          /\ readings_df[j].KW_GENERATION = 0
          /\ ~HasSolarContract(readings_df[k].CUSTOMER_ID)
          /\ readings_df[k].TIMESTAMP.month = 8

(***************************************************************************)
(* C7: in each table the identifiers are, in emission order, the           *)
(* consecutive integers from the table's offset (CID 1001, CON 5001,       *)
(* RID 100001, INV 80001, CAS 101), zero-padded behind the table's prefix, *)
(* and the table's counter stands one past the last identifier.  The       *)
(* readings, by far the longest table, are read while the table grows and  *)
(* when the run has ended; the later stages do not touch them.             *)
(***************************************************************************)
IsIdentifier(id, prefix, n, width) ==
    /\ id.prefix = prefix
    /\ Len(id.digits) = width
    /\ NumericId(id) = n

C7_ConsecutiveIdentifiers ==
    /\ \A i \in Indices(customers_df) :
          IsIdentifier(customers_df[i].CUSTOMER_ID, "CID_", 1001 + (i - 1), 6)
    /\ \A i \in Indices(contracts_df) :
          IsIdentifier(contracts_df[i].CONTRACT_ID, "CON_", 5001 + (i - 1), 7)
    /\ pc \in {"readings", "done", "error"} =>
          \A i \in Indices(readings_df) :
              IsIdentifier(readings_df[i].READING_ID, "RID_", 100001 + (i - 1), 8)
    /\ \A i \in Indices(billing_df) :
          IsIdentifier(billing_df[i].INVOICE_ID, "INV_", 80001 + (i - 1), 7)
    /\ \A i \in Indices(cases_df) :
          IsIdentifier(cases_df[i].CASE_ID, "CAS_", 101 + (i - 1), 6)
    /\ pc \in {"contracts", "readings", "billing", "cases", "done"} =>
          contract_id_counter = 5001 + Len(contracts_df)
    /\ pc \in {"readings", "billing", "cases", "done"} =>
          reading_id_counter = 100001 + Len(readings_df)
    /\ pc \in {"billing", "cases", "done"} => invoice_id_counter = 80001 + Len(billing_df)
    /\ pc \in {"cases", "done"} => case_id_counter = 101 + Len(cases_df)

\* A finished run of two customers with a skipped billing month, a customer
\* whose second contract slot was skipped (a lone gas contract comes only
\* from the draw gas, gas) and a customer with two contracts after it.
C7_Witness ==
    /\ pc = "done"
    /\ Len(customers_df) = 2
    /\ Len(billing_df) < Len(customers_df) * NumMonths(start_date, end_date)
    /\ Len(cases_df) > 2
    /\ Len(contracts_df) = 3
    /\ contracts_df[1].SERVICE_TYPE = "gas"
    /\ contracts_df[2].CUSTOMER_ID = contracts_df[3].CUSTOMER_ID

(***************************************************************************)
(* C8: after the contract stage every contract belongs to a generated      *)
(* customer, every customer has 1 or 2 contracts, and no customer has two  *)
(* contracts of the same service type.                                     *)
(***************************************************************************)
C8_ContractsPerCustomer ==
    ContractsComplete =>
        /\ \A i \in Indices(contracts_df) :
              /\ contracts_df[i].CUSTOMER_ID \in CustomerIdSet
              /\ contracts_df[i].SERVICE_TYPE \in ServiceTypes
        /\ \A c \in CustomerIdSet :
              /\ Cardinality(ContractsOf(c)) \in {1, 2}
              /\ \A i, j \in ContractsOf(c) :
                    contracts_df[i].SERVICE_TYPE = contracts_df[j].SERVICE_TYPE => i = j

\* The contract stage is over; one customer drew gas twice and holds the
\* one gas contract, another holds two contracts.
C8_Witness ==
    /\ pc = "contracts"
    /\ idx > Len(customers_df)
    /\ \E c, d \in CustomerIdSet :
          /\ Cardinality(ContractsOf(c)) = 1
          /\ \A i \in ContractsOf(c) : contracts_df[i].SERVICE_TYPE = "gas"
          /\ Cardinality(ContractsOf(d)) = 2

(***************************************************************************)
(* C9: an invoice is 'pending' exactly when its period lies in the month   *)
(* and year of end_date; otherwise 'overdue' exactly when its customer is  *)
(* in the overdue subset (at most 7 customers, all anomaly customers) and  *)
(* the period month is August; otherwise 'paid'.  So an invoice whose      *)
(* period covers end_date is 'pending' and none of an earlier month is.    *)
(***************************************************************************)
C9_PaymentStatusPriority ==
    /\ overdue_customers \subseteq anomaly_customers
    /\ Cardinality(overdue_customers) <= 7
    /\ \A i \in Indices(billing_df) :
          LET inv == billing_df[i]
              inEndMonth == SameMonth(inv.CONSUMPTION_PERIOD_START, end_date)
              overdueAugust == /\ inv.CUSTOMER_ID \in overdue_customers
                               /\ inv.CONSUMPTION_PERIOD_START.month = 8
          IN  /\ inv.PAYMENT_STATUS = "pending" <=> inEndMonth
              /\ inv.PAYMENT_STATUS = "overdue" <=> (~inEndMonth /\ overdueAugust)
              /\ inv.PAYMENT_STATUS = "paid" <=> (~inEndMonth /\ ~overdueAugust)
              /\ (/\ DtLE(inv.CONSUMPTION_PERIOD_START, end_date)
                  /\ DtLE(DateOf(end_date), inv.CONSUMPTION_PERIOD_END))
                    => inv.PAYMENT_STATUS = "pending"
              /\ DtLT(inv.CONSUMPTION_PERIOD_END, ReplaceDay1(DateOf(end_date)))
                    => inv.PAYMENT_STATUS # "pending"

\* A billing stage that issued all three statuses, 'paid' for an August
\* invoice among them.
C9_Witness ==
    /\ BillingComplete
    /\ \E i, j, k \in Indices(billing_df) :
          /\ billing_df[i].PAYMENT_STATUS = "pending"
          /\ billing_df[j].PAYMENT_STATUS = "overdue"
          /\ billing_df[k].PAYMENT_STATUS = "paid"
          /\ billing_df[k].CONSUMPTION_PERIOD_START.month = 8

(***************************************************************************)
(* C10: every invoice's CONSUMPTION_PERIOD_START is the later of the first *)
(* day of its month and start_date, its CONSUMPTION_PERIOD_END the earlier *)
(* of the last day of that month and end_date, so start_date <= start <=   *)
(* end <= end_date; INVOICE_DATE is the period end + 5 days and DUE_DATE   *)
(* the invoice date + 14 days.                                             *)
(***************************************************************************)
FirstOfMonth(d) == DateTime(d.year, d.month, 1)
LastOfMonth(d) == DateTime(d.year, d.month, DaysInMonth(d.year, d.month))
DtMax(a, b) == IF DtLE(a, b) THEN b ELSE a

InvoiceDatesFollowPeriod(inv) ==
    /\ ToOrdinal(inv.INVOICE_DATE) = ToOrdinal(inv.CONSUMPTION_PERIOD_END) + 5
    /\ ToOrdinal(inv.DUE_DATE) = ToOrdinal(inv.INVOICE_DATE) + 14
    /\ inv.INVOICE_DATE.day \in 1..DaysInMonth(inv.INVOICE_DATE.year, inv.INVOICE_DATE.month)
    /\ inv.DUE_DATE.day \in 1..DaysInMonth(inv.DUE_DATE.year, inv.DUE_DATE.month)

PeriodEndClamped(inv) ==
    inv.CONSUMPTION_PERIOD_END =
        DtMin(LastOfMonth(inv.CONSUMPTION_PERIOD_END), DateOf(end_date))

C10_PeriodClampedToWindow ==
    \A i \in Indices(billing_df) :
        LET inv == billing_df[i]
        IN  /\ inv.CONSUMPTION_PERIOD_START =
                  DtMax(FirstOfMonth(inv.CONSUMPTION_PERIOD_END), DateOf(start_date))
            /\ PeriodEndClamped(inv)
            /\ DtLE(start_date, inv.CONSUMPTION_PERIOD_START)
            /\ DtLE(inv.CONSUMPTION_PERIOD_START, inv.CONSUMPTION_PERIOD_END)
            /\ DtLE(inv.CONSUMPTION_PERIOD_END, end_date)
            /\ InvoiceDatesFollowPeriod(inv)

\* C10, amended: every invoice's CONSUMPTION_PERIOD_START is the first day
\* of its month, also when start_date is later in that month (it is then
\* before start_date); CONSUMPTION_PERIOD_END is the earlier of the last day
\* of that month and end_date, and is not before start_date; so
\* CONSUMPTION_PERIOD_START <= CONSUMPTION_PERIOD_END <= end_date;
\* INVOICE_DATE is the period end + 5 days, DUE_DATE the invoice date + 14.
C10_Amended ==
    \A i \in Indices(billing_df) :
        LET inv == billing_df[i]
        IN  /\ inv.CONSUMPTION_PERIOD_START = FirstOfMonth(inv.CONSUMPTION_PERIOD_END)
            /\ PeriodEndClamped(inv)
            /\ DtLE(inv.CONSUMPTION_PERIOD_START, inv.CONSUMPTION_PERIOD_END)
            /\ DtLE(start_date, inv.CONSUMPTION_PERIOD_END)
            /\ DtLE(inv.CONSUMPTION_PERIOD_END, end_date)
            /\ InvoiceDatesFollowPeriod(inv)

\* An invoice whose period starts before start_date and ends, clamped, on
\* end_date before the month is over.
C10_Witness ==
    \E i \in Indices(billing_df) :
        /\ DtLT(billing_df[i].CONSUMPTION_PERIOD_START, start_date)
        /\ billing_df[i].CONSUMPTION_PERIOD_END = DateOf(end_date)
        /\ DtLT(end_date, LastOfMonth(end_date))

====
